---- MODULE Spec2Model ----
(***************************************************************************)
(* Lume e-reader: the navigation state machine (EReader), the readers of   *)
(* both builds (Firmware/main.py BookReader; Production/main.py            *)
(* TextBookReader, PDFBookReader, EPUBBookReader and its open_book), the   *)
(* debounce of InputHandler.handle_input, and the interleaving of the main *)
(* thread's run() with the GPIO edge-callback thread over the display      *)
(* driver's bus steps.                                                     *)
(*                                                                         *)
(* Text is a sequence of character codes; NL is the newline.  A file's     *)
(* content and the directory listing are read only when a reader is        *)
(* constructed or the directory is scanned, so they are inputs of those    *)
(* operations, drawn from the sets below.                                  *)
(***************************************************************************)
EXTENDS Integers, Sequences, FiniteSets, TLC

VARIABLES
    build,            \* which main.py supplies open_book and the readers
    current_menu,     \* EReader.current_menu: "main" | "reading"
    selected_index,   \* EReader.selected_index
    current_book,     \* EReader.current_book (NoBook models None)
    settings,         \* EReader.settings
    current_files,    \* FileManager.current_files, as of the last scan
    fx,               \* what the last handler call did (observation only)
    now,              \* time.time(), in milliseconds
    last_press_time,  \* InputHandler.last_press_time: pin -> ms
    inp,              \* what the last handle_input call did (observation only)
    edges,            \* number of edges delivered so far
    main_pc,          \* position of the main thread in EReader.run
    cb_pc,            \* position of the edge-callback thread
    busy,             \* the panel's busy line (BUSY_PIN) is HIGH
    wire,             \* the last transfer put on the bus, and by which thread
    WIDTH,            \* EInkDisplay.WIDTH
    HEIGHT,           \* EInkDisplay.HEIGHT
    buffer,           \* EInkDisplay.buffer: the ink pixels of the canvas
    draws,            \* number of drawing calls so far
    buf,              \* the frame display_image built last
    cs,               \* level of CS_PIN
    dc,               \* level of DC_PIN
    sent,             \* the last spi.writebytes call (observation only)
    drv_pc,           \* position of the caller inside the display driver
    document,         \* the document a reader's constructor was given
    created,          \* the statements of EReader.__init__ executed so far
    teardown          \* why run() left its try block, and what cleanup did

appVars == <<build, current_menu, selected_index, current_book, settings,
             current_files, fx>>
inputVars == <<now, last_press_time, inp, edges>>
runVars == <<main_pc, cb_pc, busy>>
panelVars == <<WIDTH, HEIGHT, buffer, draws, buf, cs, dc, sent, drv_pc>>
vars == <<build, current_menu, selected_index, current_book, settings,
          current_files, fx, now, last_press_time, inp, edges,
          main_pc, cb_pc, busy, wire,
          WIDTH, HEIGHT, buffer, draws, buf, cs, dc, sent, drv_pc, document, created, teardown>>

-----------------------------------------------------------------------------
(* Bounds of the model *)

\* documents offered to a reader have up to MaxPages pages
MaxPages == 3
\* InputSpec: the clock runs from 0 to MaxTime ms in steps of Quantum ms
MaxTime == 200
Quantum == 100
\* InputSpec: number of edges delivered
MaxEdges == 3
\* RunSpec: number of edges dispatched to a handler
MaxRunEdges == 2
\* PageSpec: the texts read have up to MaxPrefix short lines before a long one
MaxPrefix == 21
\* PanelSpec: the panel is up to MaxWidth pixels wide and MaxHeight high
MaxWidth == 9
MaxHeight == 2
\* PanelSpec: number of drawing calls on the canvas
MaxDraws == 2

-----------------------------------------------------------------------------
(* Program constants *)

chars_per_line == 80
lines_per_page == 20
\* debounce_delay = 0.2 s, in milliseconds
debounce_delay == 200
\* default settings
default_last_page == 0
default_font_size == 16

\* the newline character '\n'
NL == 10

Min(a, b) == IF a < b THEN a ELSE b

-----------------------------------------------------------------------------
(* Text helpers: str.split('\n'), '\n'.join, slicing.  Recursion is kept   *)
(* shallow: split and join work by halves.                                 *)

\* split of s1 \o s2 from the splits a of s1 and b of s2: the last piece of
\* a and the first piece of b are one line
SplitJoin(a, b) ==
    SubSeq(a, 1, Len(a) - 1) \o <<a[Len(a)] \o b[1]>> \o Tail(b)

RECURSIVE split_lines(_)
\* content.split('\n'): the pieces between consecutive newlines, always at
\* least one.  (x \in {e} binds x to the value of e, computed once.)
split_lines(s) ==
    IF Len(s) = 0 THEN << <<>> >>
    ELSE IF Len(s) = 1 THEN (IF s[1] = NL THEN << <<>>, <<>> >> ELSE <<s>>)
    ELSE LET h == Len(s) \div 2
         IN  CHOOSE r \in {SplitJoin(a, b) :
                             a \in {split_lines(SubSeq(s, 1, h))},
                             b \in {split_lines(SubSeq(s, h + 1, Len(s)))}} : TRUE

RECURSIVE join_lines(_)
\* '\n'.join(lines)
join_lines(lines) ==
    IF Len(lines) = 0 THEN <<>>
    ELSE IF Len(lines) = 1 THEN lines[1]
    ELSE LET h == Len(lines) \div 2
         IN  join_lines(SubSeq(lines, 1, h)) \o <<NL>>
             \o join_lines(SubSeq(lines, h + 1, Len(lines)))

Repeat(x, n) == [i \in 1..n |-> x]

-----------------------------------------------------------------------------
(* Pagination *)

RECURSIVE WrapWhile(_, _)
\* while len(line) > chars_per_line: append(line[:cpl]); line = line[cpl:]
\* then append(line).  Returns current with the chunks appended.  The
\* slices are line[:cpl] and line[cpl:].
WrapWhile(current, line) ==
    IF Len(line) > chars_per_line
    THEN WrapWhile(Append(current, SubSeq(line, 1, chars_per_line)),
                   SubSeq(line, chars_per_line + 1, Len(line)))
    ELSE Append(current, line)

RECURSIVE FillPage(_, _)
\* the for-loop of load_book up to its next flush: source lines are wrapped
\* into current, and the page-full test runs once per source line
FillPage(lines, current) ==
    IF Len(lines) = 0
    THEN [current |-> current, rest |-> <<>>, full |-> FALSE]
    ELSE LET cur2 == WrapWhile(current, Head(lines))
         IN  IF Len(cur2) >= lines_per_page
             THEN [current |-> cur2, rest |-> Tail(lines), full |-> TRUE]
             ELSE FillPage(Tail(lines), cur2)

RECURSIVE LoadLines(_)
\* the for-loop of load_book and the flush of the last partial page
LoadLines(lines) ==
    LET r == FillPage(lines, <<>>)
    IN  IF r.full THEN <<join_lines(r.current)>> \o LoadLines(r.rest)
        ELSE IF Len(r.current) > 0 THEN <<join_lines(r.current)>>
        ELSE <<>>

\* the page a failed load leaves: f"Error loading book: {e}" (non-empty)
ErrorPage == <<69, 114, 114, 111, 114>>

\* BookReader.load_book / TextBookReader.load_book: the pages list
load_book(doc) ==
    IF doc.ok THEN LoadLines(split_lines(doc.content))
    ELSE <<ErrorPage>>

\* [line[i:i+80] for i in range(0, len(line), 80)]
Chunks(line) ==
    [i \in 1..((Len(line) + chars_per_line - 1) \div chars_per_line) |->
        SubSeq(line, chars_per_line * (i - 1) + 1,
               Min(chars_per_line * i, Len(line)))]

RECURSIVE EpubFill(_, _, _)
\* the loops of paginate up to the next flush; wl holds the chunks of the
\* source line in progress, and the page-full test runs once per chunk
EpubFill(lines, wl, current) ==
    IF Len(wl) > 0
    THEN LET cur2 == Append(current, Head(wl))
         IN  IF Len(cur2) = lines_per_page
             THEN [current |-> cur2, lines |-> lines, wl |-> Tail(wl),
                   full |-> TRUE]
             ELSE EpubFill(lines, Tail(wl), cur2)
    ELSE IF Len(lines) = 0
    THEN [current |-> current, lines |-> <<>>, wl |-> <<>>, full |-> FALSE]
    ELSE EpubFill(Tail(lines), Chunks(Head(lines)), current)

RECURSIVE EpubPages(_, _)
EpubPages(lines, wl) ==
    LET r == EpubFill(lines, wl, <<>>)
    IN  IF r.full THEN <<join_lines(r.current)>> \o EpubPages(r.lines, r.wl)
        ELSE IF Len(r.current) > 0 THEN <<join_lines(r.current)>>
        ELSE <<>>

\* EPUBBookReader.paginate
paginate(content) == EpubPages(split_lines(content), <<>>)

RECURSIVE parse_book(_)
\* EPUBBookReader.parse_book over the texts of the document items, in order:
\* self.pages.extend(self.paginate(text)) per item
parse_book(units) ==
    IF Len(units) = 0 THEN <<>>
    ELSE paginate(Head(units)) \o parse_book(Tail(units))

-----------------------------------------------------------------------------
(* The book directory and FileManager *)

\* names the directory may hold
DirEntries == {"alpha.txt", "Beta.PDF", "gamma.epub"}

\* Path.suffix
Suffix(name) ==
    CASE name = "alpha.txt" -> ".txt"
      [] name = "Beta.PDF" -> ".PDF"
      [] name = "gamma.epub" -> ".epub"

\* str.lower() on the strings that occur
Lower(s) ==
    CASE s = "Beta.PDF" -> "beta.pdf"
      [] s = ".PDF" -> ".pdf"
      [] OTHER -> s

\* position of a string in Python's string order
StrRank(s) ==
    CASE s = "Beta.PDF" -> 1
      [] s = "alpha.txt" -> 2
      [] s = "beta.pdf" -> 3
      [] s = "gamma.epub" -> 4

supported_formats == {".txt", ".pdf", ".epub"}

\* a file of books_dir
Path(name) == [dir |-> "/home/pi/books", name |-> name]
NoFile == [dir |-> "", name |-> ""]

\* str(file_path)
str_path(p) == <<p.dir, p.name>>
NoPath == <<>>

\* the key of current_files.sort
sort_key(p) == StrRank(Lower(p.name))

RECURSIVE SortByKey(_)
SortByKey(S) ==
    IF S = {} THEN <<>>
    ELSE LET m == CHOOSE x \in S : \A y \in S : sort_key(x) <= sort_key(y)
         IN  <<m>> \o SortByKey(S \ {m})

\* FileManager.refresh_files on a directory holding the names in dir
refresh_files(dir) ==
    SortByKey({Path(n) : n \in {e \in dir : Lower(Suffix(e)) \in supported_formats}})

\* FileManager.get_file_list
get_file_list(files) == [i \in 1..Len(files) |-> files[i].name]

\* FileManager.get_file_path (index is 0-based)
get_file_path(files, index) ==
    IF 0 <= index /\ index < Len(files) THEN files[index + 1] ELSE NoFile

-----------------------------------------------------------------------------
(* Documents a reader may find in a file *)

\* a text of n lines "x"
TextOfLines(n) == join_lines(Repeat(<<120>>, n))
\* a text that paginates to k pages
TextOfPages(k) == TextOfLines(lines_per_page * (k - 1) + 1)

Doc(ok, content, n_pages, units) ==
    [ok |-> ok, content |-> content, n_pages |-> n_pages, units |-> units]
BadDoc == Doc(FALSE, <<>>, 0, <<>>)
\* no reader was constructed
NoDocument == Doc(FALSE, <<>>, 0, <<"none">>)

\* page counts of the documents offered: one page, or MaxPages pages
PageCounts == {1, MaxPages}

TextDocs ==
    {BadDoc, Doc(TRUE, <<>>, 0, <<>>)}
    \cup {Doc(TRUE, TextOfPages(k), 0, <<>>) : k \in PageCounts}
PdfDocs == {BadDoc} \cup {Doc(TRUE, <<>>, k, <<>>) : k \in PageCounts}
\* no document item; two items of one line each; one item of k pages
EpubDocs ==
    {BadDoc, Doc(TRUE, <<>>, 0, <<>>),
     Doc(TRUE, <<>>, 0, <<TextOfLines(1), TextOfLines(1)>>)}
    \cup {Doc(TRUE, <<>>, 0, <<TextOfPages(k)>>) : k \in PageCounts}

\* a text whose lines have the lengths lens; every character is another one
\* (none a line break), the k-th of the text being NL + k
RECURSIVE LinesOfLengths(_, _)
LinesOfLengths(lens, k) ==
    IF Len(lens) = 0 THEN <<>>
    ELSE <<[i \in 1..Head(lens) |-> NL + k + i]>>
         \o LinesOfLengths(Tail(lens), k + Head(lens))

\* lengths of the one line that may need wrapping: empty, short, full,
\* wrapped in two, wrapped in three
LongLengths ==
    {0, 1, chars_per_line, chars_per_line + 1, 2 * chars_per_line + 1}
\* lines after it: none, one, or a page and more
TailCounts == {0, 1, lines_per_page + 4}

\* n lines (empty ones if blank), a line of length long, m lines
PagingLines(n, blank, long, m) ==
    LinesOfLengths(Repeat(IF blank THEN 0 ELSE 1, n) \o <<long>> \o Repeat(1, m), 0)

\* the text files read in PageSpec
PagingTexts ==
    {Doc(TRUE, join_lines(PagingLines(n, blank, long, m)), 0, <<>>) :
        n \in 0..MaxPrefix, blank \in BOOLEAN, long \in LongLengths,
        m \in TailCounts}

\* the same lines as the text of one document item, or of two: the lines
\* before the long one, and the rest
PagingEpubs ==
    {Doc(TRUE, <<>>, 0, <<join_lines(PagingLines(n, blank, long, m))>>) :
        n \in 0..MaxPrefix, blank \in BOOLEAN, long \in LongLengths,
        m \in TailCounts}
    \cup
    {Doc(TRUE, <<>>, 0,
         <<join_lines(SubSeq(PagingLines(n, blank, long, m), 1, n)),
           join_lines(SubSeq(PagingLines(n, blank, long, m), n + 1, n + 1 + m))>>) :
        n \in 1..MaxPrefix, blank \in BOOLEAN, long \in LongLengths,
        m \in TailCounts}

DocsFor(ext) ==
    CASE ext = ".txt" -> TextDocs
      [] ext = ".pdf" -> PdfDocs
      [] ext = ".epub" -> EpubDocs
      [] OTHER -> {BadDoc}

\* outcome of the bus traffic of one display_image call
HwOutcomes == {"ok", "error"}

-----------------------------------------------------------------------------
(* Readers.  A reader is a record; file_path is an attribute only of the   *)
(* text readers (has_file_path), total_pages only of PDFBookReader.        *)

Reader(variant, has_file_path, file_path, pages, total_pages) ==
    [variant |-> variant, has_file_path |-> has_file_path,
     file_path |-> file_path, current_page |-> 0, pages |-> pages,
     total_pages |-> total_pages]

\* current_book = None
NoBook == Reader("None", FALSE, NoFile, <<>>, 0)

\* Firmware BookReader.__init__
BookReader(file_path, doc) ==
    Reader("BookReader", TRUE, file_path, load_book(doc), 0)
\* Production TextBookReader.__init__
TextBookReader(file_path, doc) ==
    Reader("TextBookReader", TRUE, file_path, load_book(doc), 0)
\* Production PDFBookReader.__init__ (fitz.open raised when ~doc.ok)
PDFBookReader(file_path, doc) ==
    Reader("PDFBookReader", FALSE, NoFile, <<>>, doc.n_pages)
\* Production EPUBBookReader.__init__ (epub.read_epub raised when ~doc.ok)
EPUBBookReader(file_path, doc) ==
    Reader("EPUBBookReader", FALSE, NoFile, parse_book(doc.units), 0)

\* len(self.pages), or self.total_pages of the fixed-layout reader
page_count(book) ==
    IF book.variant = "PDFBookReader" THEN book.total_pages ELSE Len(book.pages)

\* what a display_image call presents (observation only): a menu with its
\* number of rows and selected row, or a page with its "Page X of Y" footer
NoShown == [kind |-> "none", index |-> 0, of |-> 0]
ShownPage(kind, index, of) == [kind |-> kind, index |-> index, of |-> of]

\* display_page of every variant.  raised: IndexError on pages[current_page]
\* / load_page out of range, or the display_image call raising.
display_page(book, hw) ==
    IF book.variant = "PDFBookReader"
    THEN IF book.current_page >= book.total_pages
         THEN [rendered |-> 1, presented |-> 0, raised |-> TRUE, shown |-> NoShown]
         ELSE [rendered |-> 1, presented |-> 1, raised |-> (hw = "error"),
               shown |-> ShownPage("bitmap", book.current_page + 1,
                                   book.total_pages)]
    ELSE IF Len(book.pages) = 0
         THEN [rendered |-> 1, presented |-> 0, raised |-> FALSE, shown |-> NoShown]
    ELSE IF book.current_page >= Len(book.pages)
         THEN [rendered |-> 1, presented |-> 0, raised |-> TRUE, shown |-> NoShown]
    ELSE [rendered |-> 1, presented |-> 1, raised |-> (hw = "error"),
          shown |-> ShownPage("page", book.current_page + 1, Len(book.pages))]

\* the value next_page / prev_page return after display_page came back
moved_return(book) == IF book.variant = "BookReader" THEN "True" ELSE "None"
\* the value they return when the cursor is at the bound
unmoved_return(book) == IF book.variant = "BookReader" THEN "False" ELSE "None"

Turn(book, ret, d) ==
    [book |-> book, ret |-> ret, rendered |-> d.rendered,
     presented |-> d.presented, raised |-> d.raised, shown |-> d.shown]
NoDisplay == [rendered |-> 0, presented |-> 0, raised |-> FALSE, shown |-> NoShown]

\* self.display_page(); return True  (no return statement in Production)
Turned(b, hw) ==
    CHOOSE t \in {Turn(b, IF d.raised THEN "raised" ELSE moved_return(b), d) :
                    d \in {display_page(b, hw)}} : TRUE

\* next_page of every variant
next_page(book, hw) ==
    IF book.current_page < page_count(book) - 1
    THEN LET b == [book EXCEPT !.current_page = book.current_page + 1]
         IN  Turned(b, hw)
    ELSE Turn(book, unmoved_return(book), NoDisplay)

\* a retreat without the test for the first page, which C6 excludes
prev_page_unguarded(book, hw) ==
    Turned([book EXCEPT !.current_page = book.current_page - 1], hw)

\* prev_page of every variant
prev_page(book, hw) ==
    IF book.current_page > 0
    THEN LET b == [book EXCEPT !.current_page = book.current_page - 1]
         IN  Turned(b, hw)
    ELSE Turn(book, unmoved_return(book), NoDisplay)

-----------------------------------------------------------------------------
(* EReader *)

Effects(event, ret, d, saved, redrawn, opened) ==
    [event |-> event, ret |-> ret, rendered |-> d.rendered,
     presented |-> d.presented, raised |-> d.raised, shown |-> d.shown,
     saved |-> saved, redrawn |-> redrawn, opened |-> opened]
NoEffects(event) == Effects(event, "n/a", NoDisplay, 0, 0, FALSE)

\* EReader.load_settings: the defaults, or what an earlier run saved (a
\* bookmark is only ever written for a reader that has a file_path)
default_settings ==
    [last_book |-> NoPath, last_page |-> default_last_page,
     font_size |-> default_font_size]
SavedSettings ==
    {[last_book |-> str_path(f), last_page |-> n, font_size |-> default_font_size] :
        f \in {Path(e) : e \in {x \in DirEntries : Lower(Suffix(x)) = ".txt"}},
        n \in 0..(MaxPages - 1)}

\* EReader.show_main_menu with selected_index = sel on a directory holding dir
show_main_menu(dir, sel, hw) ==
    LET scanned == refresh_files(dir)
        names == get_file_list(scanned)
        files == IF Len(names) = 0 THEN <<"No books found">> ELSE names
    IN  [current_files |-> scanned, rendered |-> 0, presented |-> 1,
         raised |-> (hw = "error"),
         shown |-> ShownPage("menu", sel, Len(files))]

\* result of an open_book call
Opened(book, menu, d, opened) ==
    [book |-> book, menu |-> menu, d |-> d, opened |-> opened]

\* the bookmark resume of open_book
resume(book, file_path, st) ==
    IF str_path(file_path) = st.last_book
    THEN [book EXCEPT !.current_page = st.last_page]
    ELSE book

\* self.current_book.display_page(); self.current_menu = 'reading'.  An
\* exception of display_page is caught after current_book was assigned.
\* (x \in {e} binds x to the value of e, which is then computed once.)
open_shown(b, menu, hw) ==
    CHOOSE o \in {Opened(b, IF d.raised THEN menu ELSE "reading", d, ~d.raised) :
                    d \in {display_page(b, hw)}} : TRUE

\* the body of open_book once the reader is constructed
open_with(book, file_path, st, menu, hw) ==
    CHOOSE o \in {open_shown(b, menu, hw) :
                    b \in {resume(book, file_path, st)}} : TRUE

\* Firmware EReader.open_book
open_book(files, sel, book, st, menu, doc, hw) ==
    LET file_path == get_file_path(files, sel)
    IN  IF file_path = NoFile THEN Opened(book, menu, NoDisplay, FALSE)
        ELSE IF Lower(Suffix(file_path.name)) = ".txt"
        THEN open_with(BookReader(file_path, doc), file_path, st, menu, hw)
        ELSE Opened(book, menu, NoDisplay, FALSE)

\* Production open_book
Production_open_book(files, sel, book, st, menu, doc, hw) ==
    LET file_path == get_file_path(files, sel)
        ext == Lower(Suffix(file_path.name))
        failed == Opened(book, menu,
                         [NoDisplay EXCEPT !.raised = TRUE], FALSE)
    IN  IF file_path = NoFile THEN Opened(book, menu, NoDisplay, FALSE)
        ELSE IF ext = ".txt"
        THEN open_with(TextBookReader(file_path, doc), file_path, st, menu, hw)
        ELSE IF ext = ".pdf"
        THEN IF doc.ok
             THEN open_with(PDFBookReader(file_path, doc), file_path, st, menu, hw)
             ELSE failed
        ELSE IF ext = ".epub"
        THEN IF doc.ok
             THEN open_with(EPUBBookReader(file_path, doc), file_path, st, menu, hw)
             ELSE failed
        ELSE Opened(book, menu, NoDisplay, FALSE)

\* the file a select would open, and the documents it may hold
SelectedDocs ==
    LET f == get_file_path(current_files, selected_index)
    IN  IF f = NoFile THEN {BadDoc} ELSE DocsFor(Lower(Suffix(f.name)))

\* EReader.open_book of the build, on the document doc of the selected file
SelectResult(doc, hw) ==
    IF build = "Firmware"
    THEN open_book(current_files, selected_index, current_book, settings,
                   current_menu, doc, hw)
    ELSE Production_open_book(current_files, selected_index, current_book,
                              settings, current_menu, doc, hw)

Nothing(event) ==
    /\ fx' = NoEffects(event)
    /\ UNCHANGED <<build, current_menu, selected_index, current_book,
                   settings, current_files>>

\* selected_index = sel; show_main_menu()
MenuMove(event, sel) ==
    \E dir \in SUBSET DirEntries, hw \in HwOutcomes :
        \E m \in {show_main_menu(dir, sel, hw)} :
            /\ selected_index' = sel
            /\ current_files' = m.current_files
            /\ current_menu' = IF m.raised THEN current_menu ELSE "main"
            /\ fx' = Effects(event, "n/a", m, 0, 1, FALSE)
            /\ UNCHANGED <<build, current_book, settings>>

\* current_book.prev_page() / current_book.next_page()
PageTurn(event, t) ==
    /\ current_book' = t.book
    /\ fx' = Effects(event, t.ret, t, 0, 0, FALSE)
    /\ UNCHANGED <<build, current_menu, selected_index, settings, current_files>>

handle_up ==
    IF current_menu = "main"
    THEN IF selected_index > 0
         THEN MenuMove("up", selected_index - 1)
         ELSE Nothing("up")
    ELSE IF current_menu = "reading" /\ current_book # NoBook
    THEN \E hw \in HwOutcomes : \E t \in {prev_page(current_book, hw)} : PageTurn("up", t)
    ELSE Nothing("up")

handle_down ==
    IF current_menu = "main"
    THEN IF selected_index < Len(get_file_list(current_files)) - 1
         THEN MenuMove("down", selected_index + 1)
         ELSE Nothing("down")
    ELSE IF current_menu = "reading" /\ current_book # NoBook
    THEN \E hw \in HwOutcomes : \E t \in {next_page(current_book, hw)} : PageTurn("down", t)
    ELSE Nothing("down")

\* a left that turns the page in either mode, which C9 excludes
handle_left_any_mode ==
    IF current_book # NoBook
    THEN \E hw \in HwOutcomes : \E t \in {prev_page(current_book, hw)} : PageTurn("left", t)
    ELSE Nothing("left")

handle_left ==
    IF current_menu = "reading" /\ current_book # NoBook
    THEN \E hw \in HwOutcomes : \E t \in {prev_page(current_book, hw)} : PageTurn("left", t)
    ELSE Nothing("left")

handle_right ==
    IF current_menu = "reading" /\ current_book # NoBook
    THEN \E hw \in HwOutcomes : \E t \in {next_page(current_book, hw)} : PageTurn("right", t)
    ELSE Nothing("right")

handle_select ==
    IF current_menu = "main"
    THEN \E doc \in SelectedDocs, hw \in HwOutcomes :
           \E o \in {SelectResult(doc, hw)} :
               /\ current_book' = o.book
               /\ current_menu' = o.menu
               /\ fx' = Effects("select", "n/a", o.d, 0, 0, o.opened)
               /\ UNCHANGED <<build, selected_index, settings, current_files>>
    ELSE Nothing("select")

\* handle_menu and handle_back have the same body
LeaveReading(event) ==
    IF current_menu = "reading"
    THEN \E dir \in SUBSET DirEntries, hw \in HwOutcomes :
           \E m \in {show_main_menu(dir, selected_index, hw)} :
               /\ current_menu' = "main"
               /\ current_files' = m.current_files
               /\ fx' = Effects(event, "n/a", m, 0, 1, FALSE)
               /\ UNCHANGED <<build, selected_index, current_book, settings>>
    ELSE Nothing(event)

handle_menu == LeaveReading("menu")

handle_back == LeaveReading("back")

handle_bookmark ==
    IF current_menu = "reading" /\ current_book # NoBook
    THEN IF current_book.has_file_path
         THEN /\ settings' = [settings EXCEPT
                                !.last_book = str_path(current_book.file_path),
                                !.last_page = current_book.current_page]
              /\ fx' = Effects("bookmark", "n/a", NoDisplay, 1, 0, FALSE)
              /\ UNCHANGED <<build, current_menu, selected_index, current_book,
                             current_files>>
         ELSE \* AttributeError: the reader has no file_path
              /\ fx' = Effects("bookmark", "n/a",
                               [NoDisplay EXCEPT !.raised = TRUE], 0, 0, FALSE)
              /\ UNCHANGED <<build, current_menu, selected_index, current_book,
                             settings, current_files>>
    ELSE Nothing("bookmark")

\* a settings button that leaves Reading as menu does, which C8 excludes
handle_settings_leaves == LeaveReading("settings")

handle_settings == Nothing("settings")

\* InputHandler.event_handlers after EReader.setup_input_handlers
Events == {"up", "down", "left", "right", "select", "menu", "back",
           "bookmark", "settings"}

Handler(event) ==
    CASE event = "up" -> handle_up
      [] event = "down" -> handle_down
      [] event = "left" -> handle_left
      [] event = "right" -> handle_right
      [] event = "select" -> handle_select
      [] event = "menu" -> handle_menu
      [] event = "back" -> handle_back
      [] event = "bookmark" -> handle_bookmark
      [] event = "settings" -> handle_settings

-----------------------------------------------------------------------------
(* EInkDisplay: the canvas, the frame encoder of display_image and the bus  *)
(* transactions of spi_write, write_command and write_data.  A canvas is    *)
(* the set of its ink pixels <<x, y>>; getpixel gives 0 for ink and 255 for *)
(* blank, as PIL does for an image of mode '1'.                             *)

BLACK == 0
WHITE == 255
BitsPerByte == 8
MSB == 128
WRITE_IMAGE_DATA == 19
DISPLAY_REFRESH == 18

Pixels == (0..(WIDTH - 1)) \X (0..(HEIGHT - 1))

\* Image.new('1', (WIDTH, HEIGHT), 1)
Blank == {}

\* image.getpixel((x, y))
getpixel(image, x, y) == IF <<x, y>> \in image THEN BLACK ELSE WHITE

\* draw.text / draw.line / draw.rectangle, one pixel of it: fill 0 is ink
putpixel(image, x, y, fill) ==
    IF fill = 0 THEN image \cup {<<x, y>>} ELSE image \ {<<x, y>>}

\* draw.rectangle over full rows y0..y1 with fill=0 (the menu highlight)
rectangle(image, y0, y1) ==
    image \cup {p \in Pixels : y0 <= p[2] /\ p[2] <= y1}

\* a | b on bytes
RECURSIVE BitOr(_, _)
BitOr(a, b) ==
    IF a = 0 THEN b
    ELSE IF b = 0 THEN a
    ELSE 2 * BitOr(a \div 2, b \div 2) + (IF a % 2 = 1 \/ b % 2 = 1 THEN 1 ELSE 0)

\* 1 << bit: the lowest bit first
ShiftRight_lsb_first(v, n) == 2 ^ n
\* 0x80 without the shift: every pixel of a byte on one bit
ShiftRight_none(v, n) == v
\* 0x80 >> bit
RECURSIVE ShiftRight(_, _)
ShiftRight(v, n) == IF n = 0 THEN v ELSE ShiftRight(v \div 2, n - 1)

\* for bit in range(8): if x + bit < WIDTH and the pixel is black:
\*     byte |= (0x80 >> bit)
RECURSIVE PackBits(_, _, _, _, _)
PackBits(image, x, y, bit, byte) ==
    IF bit = BitsPerByte THEN byte
    ELSE PackBits(image, x, y, bit + 1,
                  IF x + bit < WIDTH /\ getpixel(image, x + bit, y) = BLACK
                  THEN BitOr(byte, ShiftRight(MSB, bit))
                  ELSE byte)

\* for x in range(0, WIDTH, 8): buf.append(byte)
RECURSIVE EncodeRow(_, _, _)
EncodeRow(image, x, y) ==
    IF x >= WIDTH THEN <<>>
    ELSE <<PackBits(image, x, y, 0, 0)>> \o EncodeRow(image, x + BitsPerByte, y)

\* for y in range(HEIGHT): ...
RECURSIVE EncodeRows(_, _)
EncodeRows(image, y) ==
    IF y >= HEIGHT THEN <<>>
    ELSE EncodeRow(image, 0, y) \o EncodeRows(image, y + 1)

\* display_image: the frame of an image of the panel's size (convert and
\* resize leave such an image of mode '1' as it is)
encode(image) == EncodeRows(image, 0)

\* what the driver is asked to do on the bus
Command(byte) == [kind |-> "command", data |-> byte]
Data(bytes) == [kind |-> "data", data |-> bytes]
WaitIdle == [kind |-> "wait", data |-> 0]
Reset == [kind |-> "reset", data |-> 0]

\* position in the driver: the calls still to make, and the statement of the
\* current one
Driver(status, ops, step) == [status |-> status, ops |-> ops, step |-> step]
DriverIdle == Driver("idle", <<>>, "none")
FirstStep(ops) ==
    IF Len(ops) = 0 THEN "none"
    ELSE IF ops[1].kind \in {"command", "data"} THEN "dc"
    ELSE IF ops[1].kind = "wait" THEN "poll"
    ELSE "reset"
\* the current call returned: go on with the next one, or return to the caller
Advance(ops) ==
    IF Len(ops) = 1 THEN DriverIdle
    ELSE Driver("running", Tail(ops), FirstStep(Tail(ops)))

\* buf is a local of display_image: it is gone when the call is left
Local(frame, pc) == IF pc.status = "running" THEN frame ELSE <<>>

\* EInkDisplay.__init__: the canvas is blank; setup_gpio gives CS and DC no
\* initial level.  The panel sizes tried are one column, one full byte, and
\* a last byte partly used.
PanelInit ==
    /\ WIDTH \in {1, BitsPerByte, MaxWidth}
    /\ HEIGHT \in {1, MaxHeight}
    /\ buffer = Blank
    /\ draws = 0
    /\ buf = <<>>
    /\ cs \in {"LOW", "HIGH"}
    /\ dc \in {"LOW", "HIGH"}
    /\ sent = [kind |-> "none", n |-> 0, cs |-> "HIGH", dc |-> "LOW",
               ok |-> TRUE]
    /\ drv_pc = DriverIdle

\* the panel as the specifications that do not look into the driver hold it
PanelAtRest ==
    /\ PanelInit
    /\ WIDTH = MaxWidth
    /\ HEIGHT = MaxHeight
    /\ cs = "HIGH"
    /\ dc = "LOW"

\* a transfer on the bus: the thread that made it and the statement it was
Transfer(by, what) == [by |-> by, what |-> what]
NoTransfer == Transfer("none", "none")

\* the driver is not inside a call
Callable == drv_pc.status \in {"idle", "raised"}

\* draw_text: a pixel of the canvas is set to fill
draw_text ==
    /\ Callable
    /\ draws < MaxDraws
    /\ draws' = draws + 1
    /\ \E p \in Pixels, fill \in {0, 1} : buffer' = putpixel(buffer, p[1], p[2], fill)
    /\ UNCHANGED <<WIDTH, HEIGHT, buf, cs, dc, sent, drv_pc>>

\* draw_menu: the highlight of the selected row
draw_rectangle ==
    /\ Callable
    /\ draws < MaxDraws
    /\ draws' = draws + 1
    /\ \E y0 \in 0..(HEIGHT - 1) : \E y1 \in y0..(HEIGHT - 1) :
           buffer' = rectangle(buffer, y0, y1)
    /\ UNCHANGED <<WIDTH, HEIGHT, buf, cs, dc, sent, drv_pc>>

\* display_image is called: the frame is built, the transfers are ahead
display_image ==
    /\ Callable
    /\ buf' = encode(buffer)
    /\ drv_pc' = Driver("running",
                        <<Command(WRITE_IMAGE_DATA), Data(buf'),
                          Command(DISPLAY_REFRESH), WaitIdle>>, "dc")
    /\ UNCHANGED <<WIDTH, HEIGHT, buffer, draws, cs, dc, sent>>

\* init_display is called
init_display ==
    /\ Callable
    /\ drv_pc' = Driver("running",
                        <<Reset, WaitIdle,
                          Command(1), Data(<<55, 0>>),
                          Command(0), Data(<<207, 8>>),
                          Command(6), Data(<<199, 204, 40>>),
                          Command(4), WaitIdle>>, "reset")
    /\ UNCHANGED <<WIDTH, HEIGHT, buffer, draws, buf, cs, dc, sent>>

\* reset: RST low, sleep, RST high, sleep
drv_reset ==
    /\ drv_pc.status = "running"
    /\ drv_pc.step = "reset"
    /\ drv_pc' = Advance(drv_pc.ops)
    /\ buf' = Local(buf, drv_pc')
    /\ UNCHANGED <<WIDTH, HEIGHT, buffer, draws, cs, dc, sent>>

\* write_command: DC low; write_data: DC high
set_dc ==
    /\ drv_pc.status = "running"
    /\ drv_pc.step = "dc"
    /\ dc' = (IF drv_pc.ops[1].kind = "command" THEN "LOW" ELSE "HIGH")
    /\ drv_pc' = [drv_pc EXCEPT !.step = "cs_low"]
    /\ UNCHANGED <<WIDTH, HEIGHT, buffer, draws, buf, cs, sent>>

\* spi_write: GPIO.output(CS_PIN, GPIO.LOW)
cs_low ==
    /\ drv_pc.status = "running"
    /\ drv_pc.step = "cs_low"
    /\ cs' = "LOW"
    /\ drv_pc' = [drv_pc EXCEPT !.step = "writebytes"]
    /\ UNCHANGED <<WIDTH, HEIGHT, buffer, draws, buf, dc, sent>>

\* spi_write: if isinstance(data, int): data = [data] (the commands are
\* given as an int, the data as a list); self.spi.writebytes(data), which
\* returns or raises; an error leaves spi_write, its caller and the driver
writebytes ==
    /\ drv_pc.status = "running"
    /\ drv_pc.step = "writebytes"
    /\ \E hw \in HwOutcomes :
         /\ sent' = [kind |-> drv_pc.ops[1].kind,
                     n |-> (IF drv_pc.ops[1].kind = "command" THEN 1
                            ELSE Len(drv_pc.ops[1].data)),
                     cs |-> cs, dc |-> dc, ok |-> (hw = "ok")]
         /\ drv_pc' = (IF hw = "ok" THEN [drv_pc EXCEPT !.step = "cs_high"]
                       ELSE Driver("raised", <<>>, "none"))
    /\ buf' = Local(buf, drv_pc')
    /\ UNCHANGED <<WIDTH, HEIGHT, buffer, draws, cs, dc>>

\* spi_write: GPIO.output(CS_PIN, GPIO.HIGH)
cs_high ==
    /\ drv_pc.status = "running"
    /\ drv_pc.step = "cs_high"
    /\ cs' = "HIGH"
    /\ drv_pc' = Advance(drv_pc.ops)
    /\ buf' = Local(buf, drv_pc')
    /\ UNCHANGED <<WIDTH, HEIGHT, buffer, draws, dc, sent>>

\* wait_until_idle: the loop test
drv_poll ==
    /\ drv_pc.status = "running"
    /\ drv_pc.step = "poll"
    /\ drv_pc' = (IF busy THEN [drv_pc EXCEPT !.step = "sleep"]
                  ELSE Advance(drv_pc.ops))
    /\ buf' = Local(buf, drv_pc')
    /\ UNCHANGED <<WIDTH, HEIGHT, buffer, draws, cs, dc, sent>>

\* wait_until_idle: time.sleep(0.01)
drv_sleep ==
    /\ drv_pc.status = "running"
    /\ drv_pc.step = "sleep"
    /\ drv_pc' = [drv_pc EXCEPT !.step = "poll"]
    /\ UNCHANGED <<WIDTH, HEIGHT, buffer, draws, buf, cs, dc, sent>>

-----------------------------------------------------------------------------
(* State after EReader.__init__ *)

\* EReader.__init__ statement by statement, InputHandler.__init__ and
\* setup_input_handlers included, in the order of the code; the second
\* component names the event set_handler registers a handler for
ConstructorSteps ==
    <<<<"display", "">>, <<"edge_detect", "">>,
      <<"last_press_time", "">>, <<"debounce_delay", "">>,
      <<"event_handlers", "">>, <<"file_manager", "">>,
      <<"app_state", "">>, <<"settings", "">>,
      <<"set_handler", "up">>, <<"set_handler", "down">>,
      <<"set_handler", "left">>, <<"set_handler", "right">>,
      <<"set_handler", "select">>, <<"set_handler", "menu">>,
      <<"set_handler", "back">>, <<"set_handler", "bookmark">>,
      <<"set_handler", "settings">>>>

\* the statement was executed
Done(step) == \E i \in 1..Len(created) : created[i] = step

AppInit ==
    /\ build \in {"Firmware", "Production"}
    /\ current_menu = "main"
    /\ selected_index = 0
    /\ current_book = NoBook
    /\ settings \in {default_settings} \cup SavedSettings
    /\ \E dir \in SUBSET DirEntries : current_files = refresh_files(dir)
    /\ fx = NoEffects("none")
    /\ document = NoDocument
    /\ teardown = <<>>

InputInit ==
    /\ now = 0
    /\ last_press_time = <<>>
    /\ inp = [pin |-> 0, accepted |-> FALSE, dispatched |-> 0]
    /\ edges = 0

\* a thread's position: the statement it is at, and whether it is in the
\* time.sleep of a busy-wait
At(place) == [at |-> place, sleeping |-> FALSE]

\* the main thread sleeps in the idle loop of run(), no edge is being handled
Init ==
    /\ AppInit
    /\ InputInit
    /\ main_pc = At("idle")
    /\ cb_pc = At("idle")
    /\ busy = FALSE
    /\ wire = NoTransfer
    /\ created = ConstructorSteps
    /\ PanelAtRest

\* the handlers, each run to completion on the callback thread while the
\* main thread sleeps in its idle loop
Next ==
    \/ handle_up /\ UNCHANGED <<inputVars, runVars, wire, panelVars, document, created, teardown>>
    \/ handle_down /\ UNCHANGED <<inputVars, runVars, wire, panelVars, document, created, teardown>>
    \/ handle_left /\ UNCHANGED <<inputVars, runVars, wire, panelVars, document, created, teardown>>
    \/ handle_right /\ UNCHANGED <<inputVars, runVars, wire, panelVars, document, created, teardown>>
    \/ handle_select /\ UNCHANGED <<inputVars, runVars, wire, panelVars, document, created, teardown>>
    \/ handle_menu /\ UNCHANGED <<inputVars, runVars, wire, panelVars, document, created, teardown>>
    \/ handle_back /\ UNCHANGED <<inputVars, runVars, wire, panelVars, document, created, teardown>>
    \/ handle_bookmark /\ UNCHANGED <<inputVars, runVars, wire, panelVars, document, created, teardown>>
    \/ handle_settings /\ UNCHANGED <<inputVars, runVars, wire, panelVars, document, created, teardown>>

Spec == Init /\ [][Next]_vars

-----------------------------------------------------------------------------
(* InputHandler: the nine lines, the debounce and the dispatch *)

JOYSTICK_UP == 22
JOYSTICK_DOWN == 23
JOYSTICK_LEFT == 5
JOYSTICK_RIGHT == 6
JOYSTICK_CENTER == 12
BUTTON_1 == 4
BUTTON_2 == 14
BUTTON_3 == 15
BUTTON_4 == 27

pins == {JOYSTICK_UP, JOYSTICK_DOWN, JOYSTICK_LEFT, JOYSTICK_RIGHT,
         JOYSTICK_CENTER, BUTTON_1, BUTTON_2, BUTTON_3, BUTTON_4}

event_map ==
    (JOYSTICK_UP :> "up") @@ (JOYSTICK_DOWN :> "down")
    @@ (JOYSTICK_LEFT :> "left") @@ (JOYSTICK_RIGHT :> "right")
    @@ (JOYSTICK_CENTER :> "select") @@ (BUTTON_1 :> "menu")
    @@ (BUTTON_2 :> "back") @@ (BUTTON_3 :> "bookmark")
    @@ (BUTTON_4 :> "settings")

\* a window that includes its end point, which C5 excludes
within_debounce_inclusive(current_time, last) ==
    current_time - last <= debounce_delay

\* current_time - self.last_press_time[pin] < self.debounce_delay
within_debounce(current_time, last) == current_time - last < debounce_delay

\* pin in self.last_press_time and the edge falls in the window
debounced(pin, current_time, table) ==
    /\ pin \in DOMAIN table
    /\ within_debounce(current_time, table[pin])

\* self.last_press_time[pin] = current_time
record_press(pin, current_time, table) ==
    [p \in DOMAIN table \cup {pin} |->
        IF p = pin THEN current_time ELSE table[p]]

\* InputHandler.handle_input(pin), called at time now
handle_input(pin) ==
    IF debounced(pin, now, last_press_time)
    THEN /\ inp' = [pin |-> pin, accepted |-> FALSE, dispatched |-> 0]
         /\ UNCHANGED <<last_press_time, appVars>>
    ELSE /\ last_press_time' = record_press(pin, now, last_press_time)
         /\ IF pin \in DOMAIN event_map /\ event_map[pin] \in Events
            THEN /\ inp' = [pin |-> pin, accepted |-> TRUE, dispatched |-> 1]
                 /\ Handler(event_map[pin])
            ELSE /\ inp' = [pin |-> pin, accepted |-> TRUE, dispatched |-> 0]
                 /\ UNCHANGED appVars

\* InputSpec follows handle_input in a quiet environment: a rescan finds the
\* directory as it was, and the handler that ran, if one did, had its
\* transfer to the panel succeed
Quiet ==
    /\ current_files' = current_files
    /\ (inp'.dispatched = 1 /\ fx'.presented = 1) => ~fx'.raised

\* a falling edge on a line: RPi.GPIO calls handle_input(pin).  The filter
\* of the library itself (bouncetime=200) is left out: handle_input is called
\* for every edge, which covers every call the library makes.
falling_edge(pin) ==
    /\ edges < MaxEdges
    /\ edges' = edges + 1
    /\ handle_input(pin)
    /\ Quiet
    /\ UNCHANGED <<now, runVars, wire, panelVars, document, created, teardown>>

\* time passes
Tick ==
    /\ now + Quantum <= MaxTime
    /\ now' = now + Quantum
    /\ UNCHANGED <<last_press_time, inp, edges, appVars, runVars, wire,
                   panelVars, document, created, teardown>>

InputNext ==
    \/ \E pin \in pins : falling_edge(pin)
    \/ Tick

\* the settings file is absent: load_settings returns the defaults
FreshInit ==
    /\ Init
    /\ settings = default_settings

InputSpec == FreshInit /\ [][InputNext]_vars

-----------------------------------------------------------------------------
(* EReader.run on the main thread, interleaved with the edge-callback      *)
(* thread.  RPi.GPIO runs all edge callbacks on one thread of its own, one *)
(* after the other; add_event_detect was called in InputHandler.__init__,  *)
(* so callbacks arrive from the first statement of run() on.  In RunSpec   *)
(* the bus transfers succeed, every rescan finds the directory as it      *)
(* was, and the busy line is free to do anything; no time passes between   *)
(* the edges, so a second edge on a line is debounced.  A                  *)
(* handler's writes to the application state are taken in one step when it *)
(* is dispatched; its display_image then proceeds statement by statement.  *)

\* run() is entered: init_display is about to reset the panel
RunStart ==
    /\ main_pc = At("reset")
    /\ cb_pc = At("idle")
    /\ busy \in BOOLEAN
    /\ wire = NoTransfer
    /\ PanelAtRest
    /\ created = ConstructorSteps

RunInit ==
    /\ AppInit
    /\ settings = default_settings
    /\ InputInit
    /\ RunStart

\* the statements of display_image that use the bus and the busy line
DisplayImagePlaces == {"cmd13", "data", "cmd12", "wait_refresh"}
\* the busy-waits
WaitPlaces == {"wait_reset", "wait_power", "wait_refresh"}

\* where wait_until_idle returns to
AfterWait(place) ==
    CASE place = "wait_reset" -> "init_cmds"
      [] place = "wait_power" -> "menu_draw"
      [] place = "wait_refresh" -> "after_refresh"

\* EInkDisplay.wait_until_idle, one evaluation of the loop test:
\* while GPIO.input(BUSY_PIN) == GPIO.HIGH: time.sleep(0.01)
wait_until_idle(pc) ==
    IF busy THEN [pc EXCEPT !.sleeping = TRUE] ELSE At(AfterWait(pc.at))

\* EInkDisplay.reset: RST low, sleep, RST high, sleep
main_reset ==
    /\ main_pc = At("reset")
    /\ main_pc' = At("wait_reset")
    /\ UNCHANGED <<cb_pc, busy, appVars, inputVars, wire, panelVars, document, created, teardown>>

\* a busy-wait of the main thread polls the busy line
main_poll ==
    /\ main_pc.at \in WaitPlaces
    /\ ~main_pc.sleeping
    /\ main_pc' = (IF wait_until_idle(main_pc).at = "after_refresh"
                   THEN At("menu_set") ELSE wait_until_idle(main_pc))
    /\ UNCHANGED <<cb_pc, busy, appVars, inputVars, wire, panelVars, document, created, teardown>>

\* time.sleep(0.01) of a busy-wait returns
main_sleep ==
    /\ main_pc.sleeping
    /\ main_pc' = [main_pc EXCEPT !.sleeping = FALSE]
    /\ UNCHANGED <<cb_pc, busy, appVars, inputVars, wire, panelVars, document, created, teardown>>

\* init_display: power setting, panel setting, booster soft start, power on
main_init_cmds ==
    /\ main_pc = At("init_cmds")
    /\ main_pc' = At("wait_power")
    /\ wire' = Transfer("main", "cmd04")
    /\ UNCHANGED <<cb_pc, busy, appVars, inputVars, panelVars, document, created, teardown>>

\* show_main_menu: refresh_files, get_file_list, draw_menu into the buffer
main_menu_draw ==
    /\ main_pc = At("menu_draw")
    /\ \E dir \in SUBSET DirEntries : current_files' = refresh_files(dir)
    /\ current_files' = current_files
    /\ main_pc' = At("cmd13")
    /\ UNCHANGED <<build, current_menu, selected_index, current_book, settings,
                   fx, cb_pc, busy, inputVars, wire, panelVars, document, created, teardown>>


\* display_image: write_command(0x13); write_data(buf); write_command(0x12)
NextTransfer(place) ==
    CASE place = "cmd13" -> "data"
      [] place = "data" -> "cmd12"
      [] place = "cmd12" -> "wait_refresh"

main_transfer ==
    /\ main_pc.at \in {"cmd13", "data", "cmd12"}
    /\ main_pc' = At(NextTransfer(main_pc.at))
    /\ wire' = Transfer("main", main_pc.at)
    /\ UNCHANGED <<cb_pc, busy, appVars, inputVars, panelVars, document, created, teardown>>

\* show_main_menu: self.current_menu = 'main'; run() enters its idle loop
main_menu_set ==
    /\ main_pc = At("menu_set")
    /\ current_menu' = "main"
    /\ main_pc' = At("idle")
    /\ UNCHANGED <<build, selected_index, current_book, settings,
                   current_files, fx, cb_pc, busy, inputVars, wire, panelVars, document, created, teardown>>

\* a falling edge: handle_input(pin) runs on the callback thread, and the
\* display_image of its handler, if it calls one, is entered
cb_dispatch ==
    /\ cb_pc = At("idle")
    /\ edges < MaxRunEdges
    /\ edges' = edges + 1
    /\ \E pin \in pins : handle_input(pin)
    /\ Quiet
    /\ cb_pc' = (IF inp'.dispatched = 1 /\ fx'.presented = 1
                 THEN At("cmd13") ELSE At("idle"))
    /\ UNCHANGED <<now, main_pc, busy, wire, panelVars, document, created, teardown>>

cb_transfer ==
    /\ cb_pc.at \in {"cmd13", "data", "cmd12"}
    /\ cb_pc' = At(NextTransfer(cb_pc.at))
    /\ wire' = Transfer("cb", cb_pc.at)
    /\ UNCHANGED <<main_pc, busy, appVars, inputVars, panelVars, document, created, teardown>>

\* the busy-wait of the handler's display_image polls the busy line
cb_poll ==
    /\ cb_pc.at \in WaitPlaces
    /\ ~cb_pc.sleeping
    /\ cb_pc' = (IF wait_until_idle(cb_pc).at = "after_refresh"
                 THEN At("idle") ELSE wait_until_idle(cb_pc))
    /\ UNCHANGED <<main_pc, busy, appVars, inputVars, wire, panelVars, document, created, teardown>>

cb_sleep ==
    /\ cb_pc.sleeping
    /\ cb_pc' = [cb_pc EXCEPT !.sleeping = FALSE]
    /\ UNCHANGED <<main_pc, busy, appVars, inputVars, wire, panelVars, document, created, teardown>>

\* the panel raises or clears its busy line
panel_busy ==
    /\ busy' = ~busy
    /\ UNCHANGED <<main_pc, cb_pc, appVars, inputVars, wire, panelVars, document, created, teardown>>

MainStep ==
    \/ main_reset
    \/ main_poll
    \/ main_sleep
    \/ main_init_cmds
    \/ main_menu_draw
    \/ main_transfer
    \/ main_menu_set

CbStep ==
    \/ cb_transfer
    \/ cb_poll
    \/ cb_sleep

RunNext ==
    \/ MainStep
    \/ cb_dispatch
    \/ CbStep
    \/ panel_busy

RunSpec == RunInit /\ [][RunNext]_vars

\* both threads are scheduled; nothing is assumed of the panel or of edges
FairRunSpec == RunSpec /\ WF_vars(MainStep) /\ WF_vars(CbStep)

-----------------------------------------------------------------------------
(* The constructors: main() builds the EReader statement by statement.     *)
(* Edges arrive from the moment edge detection is registered, and          *)
(* handle_input runs on the callback thread with the fields that exist by  *)
(* then.  No handler is registered before the application state, the       *)
(* settings and the file list are assigned, so these are held at their     *)
(* constructed values from the start.                                      *)

BootStart ==
    /\ AppInit
    /\ settings = default_settings
    /\ InputInit
    /\ main_pc = At("init")
    /\ cb_pc = At("idle")
    /\ busy = FALSE
    /\ wire = NoTransfer
    /\ PanelAtRest
    /\ created = <<>>

\* the next statement of EReader.__init__; after the last one main() calls
\* run()
construct ==
    /\ main_pc = At("init")
    /\ created' = Append(created, ConstructorSteps[Len(created) + 1])
    /\ main_pc' = (IF created' = ConstructorSteps THEN At("reset") ELSE main_pc)
    /\ UNCHANGED <<cb_pc, busy, appVars, inputVars, wire, panelVars, document,
                   teardown>>

\* handle_input raises AttributeError: a field it reads does not exist yet
AttributeError ==
    /\ fx' = [NoEffects("handle_input") EXCEPT !.raised = TRUE]
    /\ UNCHANGED <<build, current_menu, selected_index, current_book, settings,
                   current_files>>

\* a falling edge while the constructors run: handle_input(pin) on the
\* callback thread, on the fields that exist by then
early_edge(pin) ==
    /\ main_pc = At("init")
    /\ Done(<<"edge_detect", "">>)
    /\ edges < MaxRunEdges
    /\ edges' = edges + 1
    /\ IF ~Done(<<"last_press_time", "">>)
       THEN /\ inp' = [pin |-> pin, accepted |-> FALSE, dispatched |-> 0]
            /\ AttributeError
            /\ UNCHANGED last_press_time
       ELSE IF pin \in DOMAIN last_press_time /\ ~Done(<<"debounce_delay", "">>)
       THEN /\ inp' = [pin |-> pin, accepted |-> FALSE, dispatched |-> 0]
            /\ AttributeError
            /\ UNCHANGED last_press_time
       ELSE IF debounced(pin, now, last_press_time)
       THEN /\ inp' = [pin |-> pin, accepted |-> FALSE, dispatched |-> 0]
            /\ UNCHANGED <<last_press_time, appVars>>
       ELSE /\ last_press_time' = record_press(pin, now, last_press_time)
            /\ IF ~Done(<<"event_handlers", "">>)
               THEN /\ inp' = [pin |-> pin, accepted |-> TRUE, dispatched |-> 0]
                    /\ AttributeError
               ELSE IF Done(<<"set_handler", event_map[pin]>>)
               THEN /\ inp' = [pin |-> pin, accepted |-> TRUE, dispatched |-> 1]
                    /\ Handler(event_map[pin])
               ELSE /\ inp' = [pin |-> pin, accepted |-> TRUE, dispatched |-> 0]
                    /\ UNCHANGED appVars
    /\ Quiet
    /\ UNCHANGED <<now, runVars, wire, panelVars, document, created, teardown>>

BootNext ==
    \/ construct
    \/ \E pin \in pins : early_edge(pin)

BootSpec == BootStart /\ [][BootNext]_vars

-----------------------------------------------------------------------------
(* The life of run(): the try block of RunSpec's main thread, left by an   *)
(* exception or an interrupt, and cleanup() in the finally clause.  One    *)
(* interrupt ends the run; a further interrupt while cleanup is under way  *)
(* is not followed.  The edges are those of RunSpec and are left out here. *)

\* an exception in init_display, in show_main_menu or in the idle loop:
\* except Exception logs it, finally calls cleanup()
main_raise ==
    /\ main_pc.at \notin {"cleanup", "gpio_cleanup", "exited"}
    /\ main_pc' = At("cleanup")
    /\ teardown' = <<"Exception">>
    /\ UNCHANGED <<cb_pc, busy, appVars, inputVars, wire, panelVars, document,
                   created>>

\* KeyboardInterrupt anywhere in the try block, the idle loop included
interrupt ==
    /\ main_pc.at \notin {"cleanup", "gpio_cleanup", "exited"}
    /\ main_pc' = At("cleanup")
    /\ teardown' = <<"KeyboardInterrupt">>
    /\ UNCHANGED <<cb_pc, busy, appVars, inputVars, wire, panelVars, document,
                   created>>

\* a save_settings that lets the error of the write escape
save_settings_uncaught ==
    /\ main_pc = At("cleanup")
    /\ \E io \in HwOutcomes :
         /\ teardown' = Append(teardown, IF io = "ok" THEN "saved" ELSE "save_failed")
         /\ main_pc' = (IF io = "ok" THEN At("gpio_cleanup") ELSE At("exited"))
    /\ UNCHANGED <<cb_pc, busy, appVars, inputVars, wire, panelVars, document,
                   created>>

\* cleanup: self.save_settings(), whose write succeeds or fails; the failure
\* is caught and logged inside save_settings
save_settings ==
    /\ main_pc = At("cleanup")
    /\ \E io \in HwOutcomes :
         teardown' = Append(teardown, IF io = "ok" THEN "saved" ELSE "save_failed")
    /\ main_pc' = At("gpio_cleanup")
    /\ UNCHANGED <<cb_pc, busy, appVars, inputVars, wire, panelVars, document,
                   created>>

\* cleanup: GPIO.cleanup(); run() returns and the process ends
gpio_cleanup ==
    /\ main_pc = At("gpio_cleanup")
    /\ teardown' = Append(teardown, "released")
    /\ main_pc' = At("exited")
    /\ UNCHANGED <<cb_pc, busy, appVars, inputVars, wire, panelVars, document,
                   created>>

LifeNext ==
    \/ MainStep
    \/ panel_busy
    \/ main_raise
    \/ interrupt
    \/ save_settings
    \/ gpio_cleanup

LifeSpec == RunInit /\ [][LifeNext]_vars

-----------------------------------------------------------------------------
(* The display driver by itself: one caller draws on the canvas and calls  *)
(* init_display and display_image; a transfer may fail and the busy line   *)
(* does what it likes.                                                     *)

PanelStart ==
    /\ AppInit
    /\ build = "Firmware"
    /\ settings = default_settings
    /\ current_files = <<>>
    /\ InputInit
    /\ main_pc = At("idle")
    /\ cb_pc = At("idle")
    /\ busy \in BOOLEAN
    /\ wire = NoTransfer
    /\ PanelInit
    /\ created = ConstructorSteps

\* the rest of the program stands still while the driver is looked at
PanelFrame == UNCHANGED <<appVars, inputVars, runVars, wire, document, created, teardown>>

PanelNext ==
    \/ draw_rectangle /\ PanelFrame
    \/ display_image /\ PanelFrame
    \/ init_display /\ PanelFrame
    \/ drv_reset /\ PanelFrame
    \/ set_dc /\ PanelFrame
    \/ cs_low /\ PanelFrame
    \/ writebytes /\ PanelFrame
    \/ cs_high /\ PanelFrame
    \/ drv_poll /\ PanelFrame
    \/ drv_sleep /\ PanelFrame
    \/ panel_busy

PanelSpec == PanelStart /\ [][PanelNext]_vars

-----------------------------------------------------------------------------
(* The frame encoder by itself: canvases are drawn on panels of several    *)
(* sizes and display_image builds their frames; the run is followed up to  *)
(* the frame.                                                              *)

FrameStart ==
    /\ PanelStart
    /\ cs = "HIGH"
    /\ dc = "LOW"
    /\ busy = FALSE

FrameNext ==
    \/ draw_text /\ PanelFrame
    \/ draw_rectangle /\ PanelFrame
    \/ display_image /\ PanelFrame

FrameSpec == FrameStart /\ [][FrameNext]_vars

-----------------------------------------------------------------------------
(* The readers' pagination by itself: a reader is constructed on a text    *)
(* file or on an EPUB and holds its pages.                                 *)

PageStart ==
    /\ Init
    /\ settings = default_settings
    /\ current_files = <<>>

\* BookReader(file_path) / TextBookReader(file_path)
read_text ==
    /\ current_book = NoBook
    /\ \E doc \in PagingTexts :
         /\ document' = doc
         /\ current_book' = (IF build = "Firmware"
                             THEN BookReader(Path("alpha.txt"), doc)
                             ELSE TextBookReader(Path("alpha.txt"), doc))
    /\ UNCHANGED <<build, current_menu, selected_index, settings, current_files,
                   fx, inputVars, runVars, wire, panelVars, created, teardown>>

\* EPUBBookReader(file_path)
read_epub ==
    /\ current_book = NoBook
    /\ build = "Production"
    /\ \E doc \in PagingEpubs :
         /\ document' = doc
         /\ current_book' = EPUBBookReader(Path("gamma.epub"), doc)
    /\ UNCHANGED <<build, current_menu, selected_index, settings, current_files,
                   fx, inputVars, runVars, wire, panelVars, created, teardown>>

PageNext == read_text \/ read_epub

PageSpec == PageStart /\ [][PageNext]_vars

-----------------------------------------------------------------------------
(* Properties of the navigation state machine and the readers (Spec) *)

\* the cursor of a reader is a page of it
CursorInRange(book) ==
    0 <= book.current_page /\ book.current_page < page_count(book)

\* C3: in every reachable state the reader that was opened has
\* 0 <= cursor < pageCount, whatever was selected, turned or bookmarked,
\* also when the cursor was resumed from the stored last_page and for a
\* flow-text document without content
C3_CursorInvariant ==
    current_book # NoBook => CursorInRange(current_book)

\* C4: in every reachable state 0 <= selected_index < fileCount when the
\* last scan found files, and selected_index = 0 when it found none
C4_SelectedIndexInvariant ==
    IF Len(current_files) > 0
    THEN 0 <= selected_index /\ selected_index < Len(current_files)
    ELSE selected_index = 0

\* C6: for the reader of every reachable state: from an interior cursor c,
\* next_page then prev_page leaves the cursor at c; at the last page
\* next_page leaves it unchanged; at page 0 prev_page leaves it unchanged
C6_AdvanceRetreat ==
    current_book # NoBook =>
        \A hw1 \in HwOutcomes, hw2 \in HwOutcomes :
            LET c == current_book.current_page
                n == page_count(current_book)
            IN  /\ (0 < c /\ c < n - 1) =>
                     /\ next_page(current_book, hw1).book.current_page = c + 1
                     /\ prev_page(next_page(current_book, hw1).book, hw2)
                            .book.current_page = c
                /\ (c = n - 1) =>
                     next_page(current_book, hw1).book.current_page = c
                /\ (c = 0) =>
                     prev_page(current_book, hw1).book.current_page = c

\* a reader of three or more pages stands on an interior page after a page
\* turn forward and one back
C6_Witness ==
    /\ current_menu = "reading"
    /\ fx.event \in {"left", "up"}
    /\ fx.rendered = 1
    /\ 0 < current_book.current_page
    /\ current_book.current_page < page_count(current_book) - 1

\* a page-turn step taken in Reading on the current reader
TurnStep ==
    /\ current_menu = "reading"
    /\ current_book # NoBook
    /\ fx'.event \in {"up", "down", "left", "right"}

\* return values a caller's test takes as true, and as false
Truthy == {"True"}
Falsy == {"False", "None"}

\* C7: every next_page / prev_page call that returns gives a true value
\* exactly when the cursor moved and a false one when it was at the bound,
\* and calls display_page once when it moved and not at all otherwise
C7_ReturnsMovement ==
    [][(TurnStep /\ ~fx'.raised) =>
         LET moved == current_book'.current_page # current_book.current_page
         IN  /\ fx'.ret \in (IF moved THEN Truthy ELSE Falsy)
             /\ fx'.rendered = (IF moved THEN 1 ELSE 0)]_vars

\* C8: the mode starts as Menu; Menu -> Reading only by a select that opened
\* the file at selected_index; Reading -> Menu only by menu or back, with a
\* menu redraw; in Reading up/left are prev_page and down/right next_page of
\* the current reader; nothing else changes the mode
C8_ModeTransitions ==
    /\ current_menu = "main"
    /\ [][/\ current_menu' \in {"main", "reading"}
          /\ (current_menu = "main" /\ current_menu' = "reading") =>
                /\ fx'.event = "select"
                /\ fx'.opened
                /\ current_book' # NoBook
                /\ get_file_path(current_files, selected_index) # NoFile
                /\ current_book'.has_file_path =>
                     current_book'.file_path =
                         get_file_path(current_files, selected_index)
          /\ (current_menu = "reading" /\ current_menu' = "main") =>
                /\ fx'.event \in {"menu", "back"}
                /\ fx'.redrawn = 1
          /\ (current_menu = "reading" /\ fx'.event \in {"menu", "back"}) =>
                current_menu' = "main"
          /\ (current_menu = "reading" /\ fx'.event \in {"up", "left"}) =>
                /\ current_book # NoBook
                /\ \E hw \in HwOutcomes :
                       current_book' = prev_page(current_book, hw).book
          /\ (current_menu = "reading" /\ fx'.event \in {"down", "right"}) =>
                /\ current_book # NoBook
                /\ \E hw \in HwOutcomes :
                       current_book' = next_page(current_book, hw).book
          /\ (fx'.event \notin {"select", "menu", "back"}) =>
                current_menu' = current_menu]_vars

\* Reading was entered by a select and left again by back
C8_Witness ==
    /\ current_menu = "main"
    /\ fx.event = "back"
    /\ fx.redrawn = 1
    /\ current_book # NoBook

\* a step of a handler whose cell of the transition table is a no-op
NoOpStep ==
    \/ /\ current_menu = "main"
       /\ fx'.event \in {"left", "right", "menu", "back", "bookmark", "settings"}
    \/ /\ current_menu = "reading"
       /\ fx'.event \in {"select", "settings"}

\* C9: left, right, menu, back, bookmark and settings in Menu, and select and
\* settings in Reading, leave mode, selected_index, reader, cursor, settings
\* and file list unchanged, present nothing and write no settings
C9_NoOpCells ==
    [][NoOpStep =>
         /\ UNCHANGED <<current_menu, selected_index, current_book, settings,
                        current_files>>
         /\ fx'.presented = 0
         /\ fx'.rendered = 0
         /\ fx'.redrawn = 0
         /\ fx'.saved = 0
         /\ ~fx'.raised]_vars

\* bookmark was pressed in Menu after a book had been read
C9_Witness ==
    /\ current_menu = "main"
    /\ fx.event = "bookmark"
    /\ current_book # NoBook
    /\ current_book.has_file_path

\* the selected file exists, the build has a reader for its extension, and
\* the file is not the bookmarked one (the resumed cursor is C3's subject)
SelectsReadable ==
    LET f == get_file_path(current_files, selected_index)
    IN  /\ f # NoFile
        /\ \/ Lower(Suffix(f.name)) = ".txt"
           \/ build = "Production"
        /\ str_path(f) # settings.last_book

\* C10: in Menu, a select on a file whose document fails to open or parse
\* gives a reader of exactly one page, a non-empty diagnostic, moves to
\* Reading and shows it as page 1 of 1
C10_FailedLoadShown ==
    (current_menu = "main" /\ SelectsReadable) =>
        \A doc \in {d \in SelectedDocs : ~d.ok} :
            LET o == SelectResult(doc, "ok")
            IN  /\ o.opened
                /\ o.menu = "reading"
                /\ page_count(o.book) = 1
                /\ Len(o.book.pages) = 1 /\ Len(o.book.pages[1]) > 0
                /\ o.d.presented = 1
                /\ o.d.shown.index = 1 /\ o.d.shown.of = 1

\* the file the menu's selection names
SelectedFile == get_file_path(current_files, selected_index)

\* a bookmark press in Reading
BookmarkStep ==
    /\ fx'.event = "bookmark"
    /\ current_menu = "reading"
    /\ current_book # NoBook
\* a select in Menu that constructed a reader and went on to show its page
ResumeStep ==
    /\ fx'.event = "select"
    /\ current_menu = "main"
    /\ fx'.rendered = 1

\* C16: a bookmark in Reading at cursor c stores the path of the open book
\* and c; a later select of a file with the stored path starts the reader at
\* the stored cursor, and a select of any other file starts it at 0
C16_BookmarkRoundTrip ==
    [][/\ BookmarkStep =>
            /\ settings'.last_book = str_path(SelectedFile)
            /\ settings'.last_page = current_book.current_page
       /\ ResumeStep =>
            current_book'.current_page =
                (IF str_path(SelectedFile) = settings.last_book
                 THEN settings.last_page ELSE 0)]_vars

\* the reader variants that stand for an extension
VariantsFor(ext) ==
    CASE ext = ".txt" -> {"BookReader", "TextBookReader"}
      [] ext = ".pdf" -> {"PDFBookReader"}
      [] ext = ".epub" -> {"EPUBBookReader"}
      [] OTHER -> {}

\* C17: a select in Menu on a readable file constructs the reader variant of
\* the file's extension (.txt, .pdf, .epub, in any letter case); a select on
\* a file of another extension changes no state and presents nothing
C17_VariantByExtension ==
    (current_menu = "main" /\ SelectedFile # NoFile) =>
        LET ext == Lower(Suffix(SelectedFile.name))
        IN  \A doc \in {d \in SelectedDocs : d.ok} :
                LET o == SelectResult(doc, "ok")
                IN  IF ext \in supported_formats
                    THEN o.book.variant \in VariantsFor(ext)
                    ELSE /\ o.book = current_book
                         /\ o.menu = current_menu
                         /\ o.d.presented = 0

\* a handler step in Menu while the book directory is empty: the last scan
\* found nothing and a scan of this step finds nothing
EmptyDirStep ==
    /\ current_menu = "main"
    /\ current_files = <<>>
    /\ current_files' = <<>>

\* C18: with an empty book directory every redraw of the menu shows exactly
\* one entry, the placeholder; a select changes nothing and presents
\* nothing; up and down leave selected_index as it is
C18_EmptyDirectory ==
    [][/\ (fx'.redrawn = 1 /\ current_files' = <<>>) =>
            (fx'.shown.kind = "menu" /\ fx'.shown.of = 1)
       /\ (EmptyDirStep /\ fx'.event = "select") =>
            (/\ UNCHANGED <<current_menu, selected_index, current_book, settings>>
             /\ fx'.presented = 0)
       /\ (EmptyDirStep /\ fx'.event \in {"up", "down"}) =>
            selected_index' = selected_index]_vars

\* a select in Menu whose reader was constructed and whose first page was
\* handed to the panel, where the transfer raised
FailedShowStep ==
    /\ fx'.event = "select"
    /\ current_menu = "main"
    /\ fx'.presented = 1
    /\ fx'.raised

\* C22: in Reading there is a current reader, and an open_book that fails
\* with an exception after the new reader was constructed leaves the
\* application in Menu with the reader that was current before it
C22_FailedOpenKeepsReader ==
    /\ [](current_menu = "reading" => current_book # NoBook)
    /\ [][FailedShowStep =>
            /\ current_menu' = "main"
            /\ current_book' = current_book]_vars

-----------------------------------------------------------------------------
(* Properties of handle_input (InputSpec) *)

\* the step is a handle_input call
EdgeStep == edges' = edges + 1

\* C5 (InputSpec): an edge on a line less than debounce_delay after the last accepted
\* edge on that line dispatches nothing and leaves the line's last-accepted
\* time alone; any other edge is accepted, records its time and dispatches
\* exactly one action, that of its line; other lines' times are untouched
C5_Debounce ==
    [][EdgeStep =>
         LET L == inp'.pin
             inWindow == /\ L \in DOMAIN last_press_time
                         /\ now - last_press_time[L] < debounce_delay
         IN  /\ L \in pins
             /\ \A p \in DOMAIN last_press_time \ {L} :
                   /\ p \in DOMAIN last_press_time'
                   /\ last_press_time'[p] = last_press_time[p]
             /\ inWindow =>
                   /\ inp'.dispatched = 0
                   /\ last_press_time' = last_press_time
                   /\ UNCHANGED appVars
             /\ ~inWindow =>
                   /\ inp'.dispatched = 1
                   /\ inp'.accepted
                   /\ L \in DOMAIN last_press_time'
                   /\ last_press_time'[L] = now
                   /\ fx'.event = event_map[L]]_vars

\* a second edge on a line 100 ms after an accepted one was discarded, while
\* another line had been accepted in between
C5_Witness ==
    /\ inp.pin = JOYSTICK_DOWN
    /\ ~inp.accepted
    /\ inp.dispatched = 0
    /\ JOYSTICK_DOWN \in DOMAIN last_press_time
    /\ now - last_press_time[JOYSTICK_DOWN] = 100
    /\ BUTTON_4 \in DOMAIN last_press_time
    /\ last_press_time[BUTTON_4] = now
    /\ edges = 3

-----------------------------------------------------------------------------
(* Properties of the two threads (RunSpec, FairRunSpec) *)

\* the thread is inside display_image
InDisplayImage(pc) == pc.at \in DisplayImagePlaces
\* the main thread is in its startup draw: show_main_menu of run()
InStartupDraw == main_pc.at \in {"menu_draw", "menu_set"} \cup DisplayImagePlaces

\* C1: the handler of an edge never runs its display_image while the main
\* thread is in its startup draw, and two executions of display_image never
\* overlap
C1_Serialized ==
    /\ ~(InStartupDraw /\ InDisplayImage(cb_pc))
    /\ ~(InDisplayImage(main_pc) /\ InDisplayImage(cb_pc))

\* C2: every busy-wait ends: a thread that is in wait_until_idle leaves it
\* (returns, or fails with an error), whatever the busy line does
C2_BusyWaitBounded ==
    /\ (main_pc.at \in WaitPlaces) ~> (main_pc.at \notin WaitPlaces)
    /\ (cb_pc.at \in WaitPlaces) ~> (cb_pc.at \notin WaitPlaces)

\* the position of a thread
PcOf(t) == IF t = "main" THEN main_pc ELSE cb_pc
\* the thread makes the transfer of the statement it is at
TransferStep(t, place) == PcOf(t).at = place /\ PcOf(t)'.at = NextTransfer(place)
\* the thread's display_image returns from its wait for the refresh
ReturnStep(t) == PcOf(t).at = "wait_refresh" /\ PcOf(t)'.at # "wait_refresh"

\* C19: every display_image call puts on the bus, in this order and with
\* nothing in between, the command 0x13, the frame as data and the command
\* 0x12, and returns only once the busy line was seen clear after that
C19_FrameSequence ==
    [][\A t \in {"main", "cb"} :
         /\ TransferStep(t, "data") => wire = Transfer(t, "cmd13")
         /\ TransferStep(t, "cmd12") => wire = Transfer(t, "data")
         /\ ReturnStep(t) => (~busy /\ wire = Transfer(t, "cmd12"))]_vars

-----------------------------------------------------------------------------
(* Properties of the frame encoder (FrameSpec) *)

\* a step in which display_image builds its frame
DisplayCall ==
    /\ Callable
    /\ drv_pc'.status = "running"
    /\ drv_pc'.ops[1] = Command(WRITE_IMAGE_DATA)

BytesPerRow == (WIDTH + BitsPerByte - 1) \div BitsPerByte
\* bit k of a byte, bit 0 the lowest
BitOf(byte, k) == (byte \div (2 ^ k)) % 2
\* the MSB-first, row-major bit of pixel <<x, y>> in a frame
FrameBit(frame, x, y) ==
    BitOf(frame[y * BytesPerRow + (x \div BitsPerByte) + 1],
          (BitsPerByte - 1) - (x % BitsPerByte))
\* the frame has one bit per pixel, row-major and MSB-first, and the bit is
\* set exactly for the pixels of value v
FrameMarks(frame, image, v) ==
    /\ Len(frame) = BytesPerRow * HEIGHT
    /\ \A p \in Pixels :
         (FrameBit(frame, p[1], p[2]) = 1) <=> (getpixel(image, p[1], p[2]) = v)

\* C11 as written: the frame of display_image has ceil(W/8)*H bytes,
\* row-major and MSB-first, and the bit of a pixel is 1 iff the pixel is blank
C11_BitSetForBlank == [][DisplayCall => FrameMarks(buf', buffer, WHITE)]_vars

\* C11, amended: the frame of display_image has ceil(W/8)*H bytes, row-major
\* and MSB-first, and the bit of a pixel is 1 iff the pixel is ink
C11_FrameLayout == [][DisplayCall => FrameMarks(buf', buffer, BLACK)]_vars

\* display_image has built the frame of a canvas with ink and blank pixels on
\* a panel whose last byte of a row is partly used
C11_Witness ==
    /\ WIDTH = MaxWidth
    /\ HEIGHT = MaxHeight
    /\ drv_pc.status = "running"
    /\ drv_pc.ops[1] = Command(WRITE_IMAGE_DATA)
    /\ buffer # Blank
    /\ buffer # Pixels
    /\ \E p \in buffer : p[1] >= BitsPerByte
    /\ buf = encode(buffer)

\* the canvas a frame stands for: the pixels whose bit is set are ink
Decode(frame) == {p \in Pixels : FrameBit(frame, p[1], p[2]) = 1}
\* the canvas with one pixel changed
Flip(image, p) == IF p \in image THEN image \ {p} ELSE image \cup {p}

\* C12: decoding the frame display_image built (row-major, MSB-first, a set
\* bit for ink as the encoder writes it) gives back the canvas pixel for
\* pixel, and a canvas that differs in a pixel has another frame
C12_RoundTrip ==
    [][DisplayCall =>
         /\ Decode(buf') = buffer
         /\ \A p \in Pixels : encode(Flip(buffer, p)) # buf']_vars

\* a frame was built from a canvas that two drawing calls made, with ink in
\* the first and in the last byte of a row
C12_Witness ==
    /\ WIDTH = MaxWidth
    /\ draws = MaxDraws
    /\ drv_pc.status = "running"
    /\ drv_pc.ops[1] = Command(WRITE_IMAGE_DATA)
    /\ buf # <<>>
    /\ \E p \in buffer : p[1] = 0
    /\ \E p \in buffer : p[1] = WIDTH - 1
    /\ Decode(buf) = buffer

-----------------------------------------------------------------------------
(* Properties of the display driver (PanelSpec) *)

\* a transfer was made on the bus
Transferred == sent.kind # "none"
\* the driver is inside the transfer of spi_write, between CS low and CS high
InTransfer == drv_pc.step \in {"writebytes", "cs_high"}

\* C20: whenever bytes are transferred CS is low, and DC is low for a
\* command and high for data; after every transaction, one whose transfer
\* raised included, CS is high again
C20_BusDiscipline ==
    /\ Transferred =>
         /\ sent.cs = "LOW"
         /\ sent.dc = (IF sent.kind = "command" THEN "LOW" ELSE "HIGH")
    /\ (Transferred /\ ~InTransfer) => cs = "HIGH"

-----------------------------------------------------------------------------
(* Properties of the pagination (PageSpec) *)

\* a text reader, or an EPUB reader, was constructed on the document
TextRead == current_book.variant \in {"BookReader", "TextBookReader"}
EpubRead == current_book.variant = "EPUBBookReader"

RECURSIVE Flatten(_)
\* the concatenation of a sequence of sequences
Flatten(ss) == IF Len(ss) = 0 THEN <<>> ELSE Head(ss) \o Flatten(Tail(ss))

RECURSIVE HardWrap(_)
\* a line cut into pieces of chars_per_line characters; a line that fits,
\* an empty one too, is one piece
HardWrap(line) ==
    IF Len(line) <= chars_per_line THEN <<line>>
    ELSE <<SubSeq(line, 1, chars_per_line)>>
         \o HardWrap(SubSeq(line, chars_per_line + 1, Len(line)))

\* the lines of the document as the reader is given them: of the text file,
\* or of the texts of the items one after the other
SourceLines ==
    IF TextRead THEN split_lines(document.content)
    ELSE Flatten([i \in 1..Len(document.units) |-> split_lines(document.units[i])])
\* the wrapped lines of the document
WrappedLines == Flatten([i \in 1..Len(SourceLines) |-> HardWrap(SourceLines[i])])
\* the lines of the reader's pages, page by page
PageLines == [i \in 1..Len(current_book.pages) |-> split_lines(current_book.pages[i])]

\* pages of lines_per_page lines each, the last one with the rest
RECURSIVE PagesOf(_)
PagesOf(lines) ==
    IF Len(lines) = 0 THEN <<>>
    ELSE IF Len(lines) <= lines_per_page THEN <<lines>>
    ELSE <<SubSeq(lines, 1, lines_per_page)>>
         \o PagesOf(SubSeq(lines, lines_per_page + 1, Len(lines)))

\* C13: a text file of n wrapped lines gives ceil(n / lines_per_page) pages,
\* every page but the last with exactly lines_per_page lines and none with
\* more, also when a long line is wrapped on a page that is nearly full
C13_TextPageShape ==
    TextRead =>
        /\ Len(PageLines) = (Len(WrappedLines) + lines_per_page - 1) \div lines_per_page
        /\ \A i \in 1..Len(PageLines) :
             /\ Len(PageLines[i]) <= lines_per_page
             /\ i < Len(PageLines) => Len(PageLines[i]) = lines_per_page

\* C14: the lines of the pages, in order, are the lines of the document up
\* to the wrapping: no character is dropped, repeated or moved, and no line
\* of the document, an empty one included, is lost
C14_LinesPreserved ==
    (TextRead \/ EpubRead) => Flatten(PageLines) = WrappedLines

\* C15: the pages of an EPUB are the pages of the plain-text pagination of
\* the texts of all its items taken together: the same page boundaries,
\* empty lines included
C15_EpubAsOneText ==
    EpubRead => PageLines = PagesOf(WrappedLines)

-----------------------------------------------------------------------------
(* Properties of the constructors (BootSpec) *)

\* C23: every falling edge delivered after edge detection is registered is
\* handled by handle_input with the debounce table and the handler table
\* created, so that handle_input does not fail on a missing field, and a
\* handler it dispatches finds the settings and the file list initialised
C23_InitialisedBeforeEdges ==
    [][EdgeStep =>
         /\ Done(<<"last_press_time", "">>)
         /\ Done(<<"event_handlers", "">>)
         /\ ~(fx'.event = "handle_input" /\ fx'.raised)
         /\ inp'.dispatched = 1 =>
              /\ Done(<<"settings", "">>)
              /\ Done(<<"file_manager", "">>)]_vars

-----------------------------------------------------------------------------
(* Properties of the life of run() (LifeSpec) *)

\* why run() left its try block
ExitCauses == {"Exception", "KeyboardInterrupt"}
\* what save_settings did
SaveOutcomes == {"saved", "save_failed"}

\* C21: however run() leaves its try block (an interrupt, or an error in
\* init_display, in the first menu draw or in the main loop), the settings
\* are written first and GPIO.cleanup() is called after that before the
\* process ends; GPIO.cleanup() is called also when the write failed
C21_CleanupOnExit ==
    /\ main_pc.at \notin {"cleanup", "gpio_cleanup", "exited"} => teardown = <<>>
    /\ main_pc.at = "cleanup" => teardown \in {<<c>> : c \in ExitCauses}
    /\ main_pc.at = "gpio_cleanup" =>
          teardown \in {<<c, w>> : c \in ExitCauses, w \in SaveOutcomes}
    /\ main_pc.at = "exited" =>
          teardown \in {<<c, w, "released">> : c \in ExitCauses, w \in SaveOutcomes}

\* the first menu draw raised, the write of the settings failed, and the
\* process ended with the hardware released
C21_Witness ==
    /\ main_pc.at = "exited"
    /\ teardown = <<"Exception", "save_failed", "released">>
    /\ wire # NoTransfer

====
